---- MODULE Spec2Model ----
(***************************************************************************)
(* slack-standup: one invocation of the gateway handler of src/lib.rs.     *)
(* The handler loads the configuration, parses the command payload, and    *)
(* runs debrief: build the Jira client, read the clock twice, fetch the    *)
(* PagerDuty incidents, run the two Jira searches, group the issues by     *)
(* decorated status, render both blocks and POST the text to Slack.        *)
(*                                                                         *)
(* A Rust String is modelled as the sequence of its Unicode code points,   *)
(* each written as a one-character string ("U+xxxx" for the code points    *)
(* outside ASCII).  String order is the order of the code points, which is *)
(* the byte order of UTF-8 that Rust's Ord for String uses.                *)
(***************************************************************************)
EXTENDS Integers, Sequences, FiniteSets, TLC

VARIABLES
    pc,                 \* position of the handler / of debrief
    config,             \* Result of envy::from_env::<Config>()
    slack_url,          \* CommandRequest.response_url
    jira,               \* "none" | "Ok" | "Err" : result of Jira::new
    now1,               \* local date of the first Local::now(), None until read
    now2,               \* local date of the second Local::now(), None until read
    lookback_days,      \* 0 until computed
    since,              \* date of the `since` bound, None until computed
    pd_result,          \* Result of send().and_then(json)
    incidents,
    incidents_response,
    closed_result,      \* Result of the first jira.search().iter(..).map(collect)
    inflight_result,    \* Result of the second one
    issues,
    in_flight,
    grouped,            \* BTreeMap<String, Vec<String>>
    jira_response,
    calls,              \* outbound calls attempted so far, in order
    post_result,        \* "none" | "Ok" | "Err" : result of the POST
    debrief_result,     \* "none" | "Ok" | "Err"
    response            \* "none" | "Ok" | "Err" | "panic" : what the trigger gets

vars == <<pc, config, slack_url, jira, now1, now2, lookback_days, since,
          pd_result, incidents, incidents_response, closed_result,
          inflight_result, issues, in_flight, grouped, jira_response, calls,
          post_result, debrief_result, response>>

----------------------------------------------------------------------------
(* Bounds of the model *)

MaxDay == 6          \* the first clock reading falls on one of the dates 0..MaxDay
MaxIncidents == 1    \* incidents PagerDuty answers with
MaxIssues == 3       \* issues the two Jira searches answer with, together

----------------------------------------------------------------------------
(* Strings *)

NL == "\n"

sClosed == <<"C", "l", "o", "s", "e", "d">>
sInProgress == <<"I", "n", " ", "P", "r", "o", "g", "r", "e", "s", "s">>
sInReview == <<"I", "n", " ", "R", "e", "v", "i", "e", "w">>
sBlocked == <<"B", "l", "o", "c", "k", "e", "d">>
sUnknownStatus ==
    <<"U", "n", "k", "n", "o", "w", "n", " ", "S", "t", "a", "t", "u", "s">>
sNoSummary == <<"n", "o", " ", "s", "u", "m", "m", "a", "r", "y">>
sNobody == <<"n", "o", "b", "o", "d", "y">>
sShrug == <<":", "s", "h", "r", "u", "g", ":">>
sWeatherHeader ==
    <<"U+26C5", " ", "*", "W", "e", "a", "t", "h", "e", "r", " ",
      "R", "e", "p", "o", "r", "t", "*", NL>>

\* Code points of the characters that occur in a BTreeMap key.
CodeTable ==
    { <<NL, 10>>, <<" ", 32>>, <<"*", 42>>, <<":", 58>>,
      <<"B", 66>>, <<"C", 67>>, <<"I", 73>>, <<"P", 80>>, <<"R", 82>>,
      <<"S", 83>>, <<"U", 85>>,
      <<"a", 97>>, <<"c", 99>>, <<"d", 100>>, <<"e", 101>>, <<"g", 103>>,
      <<"h", 104>>, <<"i", 105>>, <<"k", 107>>, <<"l", 108>>, <<"n", 110>>,
      <<"o", 111>>, <<"r", 114>>, <<"s", 115>>, <<"t", 116>>, <<"u", 117>>,
      <<"v", 118>>, <<"w", 119>>,
      <<"U+200D", 8205>>, <<"U+1F389", 127881>>, <<"U+1F3FB", 127995>>,
      <<"U+1F3FC", 127996>>, <<"U+1F469", 128105>>, <<"U+1F4BB", 128187>>,
      <<"U+1F52C", 128300>> }

Code(c) == (CHOOSE p \in CodeTable : p[1] = c)[2]

\* Ord for String: lexicographic on the code points, a proper prefix first.
RECURSIVE StrLess(_, _)
StrLess(a, b) ==
    IF b = <<>> THEN FALSE
    ELSE IF a = <<>> THEN TRUE
    ELSE IF Head(a) = Head(b) THEN StrLess(Tail(a), Tail(b))
    ELSE Code(Head(a)) < Code(Head(b))

\* [String]::join
RECURSIVE Join(_, _)
Join(strs, sep) ==
    IF strs = <<>> THEN <<>>
    ELSE IF Len(strs) = 1 THEN strs[1]
    ELSE strs[1] \o sep \o Join(Tail(strs), sep)

\* Display of a usize: its decimal digits.
Digit(d) == <<"0", "1", "2", "3", "4", "5", "6", "7", "8", "9">>[d + 1]

RECURSIVE FormatUsize(_)
FormatUsize(n) ==
    IF n < 10 THEN <<Digit(n)>>
    ELSE FormatUsize(n \div 10) \o <<Digit(n % 10)>>

----------------------------------------------------------------------------
(* Option and Result *)

None == [some |-> FALSE]
Some(v) == [some |-> TRUE, val |-> v]
Pending == [done |-> FALSE, ok |-> FALSE]
Ok(v) == [done |-> TRUE, ok |-> TRUE, val |-> v]
Err == [done |-> TRUE, ok |-> FALSE]

UnwrapOr(opt, default) == IF opt.some THEN opt.val ELSE default

UnwrapOrDefault(res) == IF res.ok THEN res.val ELSE <<>>

----------------------------------------------------------------------------
(* What the two services may answer *)

sFix == <<"F", "i", "x">>
sAdd == <<"A", "d", "d">>
sTwoLines == <<"a", NL, "b">>
sAna == <<"a", "n", "a">>

Key(d) == <<"C", "S", "-", d>>
Permalink(d) == <<"j", "/">> \o Key(d)

\* goji::Issue as this program reads it: key, summary(), permalink(),
\* status().name, assignee().name.
MkIssue(d, status, summary, assignee) ==
    [key |-> Key(d), permalink |-> Permalink(d), status |-> status,
     summary |-> summary, assignee |-> assignee]

IssueUniverse ==
    { MkIssue("1", Some(sClosed), Some(sFix), Some(sAna)),
      MkIssue("2", Some(sClosed), None, None),
      MkIssue("3", Some(sInReview), Some(sAdd), None),
      MkIssue("4", Some(sInProgress), Some(sTwoLines), Some(sAna)),
      MkIssue("5", Some(sBlocked), Some(sFix), None),
      MkIssue("6", None, None, Some(sAna)) }

IncidentUniverse ==
    { [incident_number |-> 1042, title |-> <<"D", "B">>,
       status |-> <<"u", "p">>, html_url |-> <<"h", "/", "1">>] }

SeqsUpTo(S, n) == UNION { [1..k -> S] : k \in 0..n }

Range(seq) == { seq[i] : i \in DOMAIN seq }

\* A search answers with each issue at most once.
DistinctSeqsUpTo(S, n) ==
    { seq \in SeqsUpTo(S, n) : Cardinality(Range(seq)) = Len(seq) }

SlackUrls == { <<"s", "/", "1">> }

\* chrono: dates are day numbers, date 0 a Monday.
Days == 0..MaxDay
Mon == 0
Weekday(date) == date % 7

----------------------------------------------------------------------------
(* Pure functions of lib.rs *)

STATUS_EMOJI ==
    [s \in {sInProgress, sInReview, sClosed} |->
        CASE s = sInProgress -> <<"U+1F469", "U+1F3FB", "U+200D", "U+1F4BB">>
          [] s = sInReview -> <<"U+1F469", "U+1F3FC", "U+200D", "U+1F52C">>
          [] s = sClosed -> <<"U+1F389">>]

\* owner with the status test dropped: the assignee is shown for every issue.
ownerAlways(issue, status) ==
    Some(<<"@">> \o UnwrapOr(issue.assignee, sNobody))

owner(issue, status) ==
    IF status = sClosed
    THEN None
    ELSE Some(<<"@">> \o UnwrapOr(issue.assignee, sNobody))

issue_display(issue, status) ==
    <<"<">> \o issue.permalink \o <<"|">> \o issue.key \o <<">", " ">>
        \o UnwrapOr(issue.summary, sNoSummary)
        \o UnwrapOr(owner(issue, status), <<>>)

DisplayStatus(issue) == UnwrapOr(issue.status, sUnknownStatus)

Emoji(status) ==
    IF status \in DOMAIN STATUS_EMOJI THEN STATUS_EMOJI[status] ELSE sShrug

StatusLabel(status) == Emoji(status) \o <<" ", "*">> \o status \o <<"*">>

\* acc.insert(label, vec![line]): the entry is replaced, not extended.
EntryInsert(acc, label, line) ==
    [k \in DOMAIN acc \cup {label} |-> IF k = label THEN <<line>> ELSE acc[k]]

\* acc.entry(label).or_insert(Vec::new()).push(line)
EntryPush(acc, label, line) ==
    [k \in DOMAIN acc \cup {label} |->
        IF k = label
        THEN Append(IF label \in DOMAIN acc THEN acc[label] ELSE <<>>, line)
        ELSE acc[k]]

EmptyMap == [k \in {} |-> <<>>]

RECURSIVE GroupFold(_, _)
GroupFold(acc, rest) ==
    IF rest = <<>> THEN acc
    ELSE LET issue == Head(rest)
             status == DisplayStatus(issue)
         IN GroupFold(EntryPush(acc, StatusLabel(status),
                                issue_display(issue, status)),
                      Tail(rest))

\* The keys taken in descending order.
MaxKey(keys) == CHOOSE k \in keys : \A o \in keys \ {k} : StrLess(o, k)

\* BTreeMap::into_iter: the keys in ascending order.
MinKey(keys) == CHOOSE k \in keys : \A o \in keys \ {k} : StrLess(k, o)

RECURSIVE SortedKeys(_)
SortedKeys(keys) ==
    IF keys = {} THEN <<>>
    ELSE LET k == MinKey(keys) IN <<k>> \o SortedKeys(keys \ {k})

\* The fold with the member lines joined by a space.
RECURSIVE RenderFoldSpaces(_, _, _)
RenderFoldSpaces(result, map, keys) ==
    IF keys = <<>> THEN result
    ELSE LET status == Head(keys)
         IN RenderFoldSpaces(result \o status \o <<NL>>
                                 \o Join(map[status], <<" ">>) \o <<NL>>,
                             map, Tail(keys))

RECURSIVE RenderFold(_, _, _)
RenderFold(result, map, keys) ==
    IF keys = <<>> THEN result
    ELSE LET status == Head(keys)
         IN RenderFold(result \o status \o <<NL>>
                           \o Join(map[status], <<NL>>) \o <<NL>>,
                       map, Tail(keys))

RenderGroups(map) == RenderFold(<<>>, map, SortedKeys(DOMAIN map))

RECURSIVE IncidentsFold(_, _)
IncidentsFold(result, rest) ==
    IF rest = <<>> THEN result
    ELSE LET incident == Head(rest)
         IN IncidentsFold(
                result \o <<"<">> \o incident.html_url \o <<"|", "#">>
                    \o FormatUsize(incident.incident_number) \o <<">", " ">>
                    \o incident.title \o <<" ", "(">> \o incident.status
                    \o <<")", NL>>,
                Tail(rest))

\* The weekday test made against Sunday.
LookbackDaysSunday(date) == IF Weekday(date) = 6 THEN 3 ELSE 1

LookbackDays(date) == IF Weekday(date) = Mon THEN 3 ELSE 1

SinceDate(date, days) == date - days

ReportText(weather, shipped) == Join(<<weather, shipped>>, <<NL>>)

----------------------------------------------------------------------------
(* The handler, statement by statement *)

Init ==
    /\ pc = "from_env"
    /\ config = Pending
    /\ slack_url = None
    /\ jira = "none"
    /\ now1 = None
    /\ now2 = None
    /\ lookback_days = 0
    /\ since = None
    /\ pd_result = Pending
    /\ incidents = <<>>
    /\ incidents_response = <<>>
    /\ closed_result = Pending
    /\ inflight_result = Pending
    /\ issues = <<>>
    /\ in_flight = <<>>
    /\ grouped = EmptyMap
    /\ jira_response = <<>>
    /\ calls = <<>>
    /\ post_result = "none"
    /\ debrief_result = "none"
    /\ response = "none"

\* let config = envy::from_env::<Config>()?;
FromEnv ==
    /\ pc = "from_env"
    /\ \E r \in {Ok("config"), Err} :
          /\ config' = r
          /\ IF r.ok
             THEN pc' = "payload" /\ response' = response
             ELSE pc' = "done" /\ response' = "Err"
    /\ UNCHANGED <<slack_url, jira, now1, now2, lookback_days, since,
                   pd_result, incidents, incidents_response, closed_result,
                   inflight_result, issues, in_flight, grouped, jira_response,
                   calls, post_result, debrief_result>>

\* request.payload::<CommandRequest>().map_err(..)?.expect(..).response_url
\* payload() is Err for a body that does not parse, Ok(None) for no body.
Payload ==
    /\ pc = "payload"
    /\ \E r \in {Err} \cup {Ok(None)} \cup {Ok(Some(u)) : u \in SlackUrls} :
          IF ~r.ok
          THEN pc' = "done" /\ response' = "Err" /\ slack_url' = slack_url
          ELSE IF ~r.val.some
          THEN pc' = "done" /\ response' = "panic" /\ slack_url' = slack_url
          ELSE pc' = "jira_new" /\ response' = response /\ slack_url' = r.val
    /\ UNCHANGED <<config, jira, now1, now2, lookback_days, since,
                   pd_result, incidents, incidents_response, closed_result,
                   inflight_result, issues, in_flight, grouped, jira_response,
                   calls, post_result, debrief_result>>

\* Jira::new whose error is not returned: debrief goes on.
JiraNewIgnoringErr ==
    /\ pc = "jira_new"
    /\ \E r \in {"Ok", "Err"} : jira' = r
    /\ pc' = "lookback"
    /\ UNCHANGED <<config, slack_url, now1, now2, lookback_days, since,
                   pd_result, incidents, incidents_response, closed_result,
                   inflight_result, issues, in_flight, grouped, jira_response,
                   calls, post_result, debrief_result, response>>

\* let jira = match Jira::new(..) { Ok(j) => j, Err(err) => return Err(..) };
JiraNew ==
    /\ pc = "jira_new"
    /\ \E r \in {"Ok", "Err"} :
          /\ jira' = r
          /\ IF r = "Ok"
             THEN pc' = "lookback" /\ debrief_result' = debrief_result
             ELSE pc' = "respond" /\ debrief_result' = "Err"
    /\ UNCHANGED <<config, slack_url, now1, now2, lookback_days, since,
                   pd_result, incidents, incidents_response, closed_result,
                   inflight_result, issues, in_flight, grouped, jira_response,
                   calls, post_result, response>>

\* let lookback_days = if Local::now().weekday() == Weekday::Mon { 3 } else { 1 };
Lookback ==
    /\ pc = "lookback"
    /\ \E date \in Days :
          /\ now1' = Some(date)
          /\ lookback_days' = LookbackDays(date)
    /\ pc' = "since"
    /\ UNCHANGED <<config, slack_url, jira, now2, since,
                   pd_result, incidents, incidents_response, closed_result,
                   inflight_result, issues, in_flight, grouped, jira_response,
                   calls, post_result, debrief_result, response>>

\* let since = (Local::now() - Duration::days(lookback_days)).format("%F");
\* The second reading of the clock is not earlier than the first; the local
\* date may have changed in between.
Since ==
    /\ pc = "since"
    /\ \E date \in {now1.val, now1.val + 1} :
          /\ now2' = Some(date)
          /\ since' = Some(SinceDate(date, lookback_days))
    /\ pc' = "pd_get"
    /\ UNCHANGED <<config, slack_url, jira, now1, lookback_days,
                   pd_result, incidents, incidents_response, closed_result,
                   inflight_result, issues, in_flight, grouped, jira_response,
                   calls, post_result, debrief_result, response>>

\* let incidents = Client::new().get(&pd_query)...send().and_then(json)
\*     .unwrap_or_default();
FetchIncidents ==
    /\ pc = "pd_get"
    /\ \E r \in {Err} \cup {Ok(v) : v \in SeqsUpTo(IncidentUniverse, MaxIncidents)} :
          /\ pd_result' = r
          /\ incidents' = UnwrapOrDefault(r)
    /\ calls' = Append(calls, [kind |-> "pd_get", since |-> since])
    /\ pc' = "weather"
    /\ UNCHANGED <<config, slack_url, jira, now1, now2, lookback_days, since,
                   incidents_response, closed_result,
                   inflight_result, issues, in_flight, grouped, jira_response,
                   post_result, debrief_result, response>>

\* let incidents_response = incidents.into_iter().fold(header, ..);
Weather ==
    /\ pc = "weather"
    /\ incidents_response' = IncidentsFold(sWeatherHeader, incidents)
    /\ pc' = "closed"
    /\ UNCHANGED <<config, slack_url, jira, now1, now2, lookback_days, since,
                   pd_result, incidents, closed_result,
                   inflight_result, issues, in_flight, grouped, jira_response,
                   calls, post_result, debrief_result, response>>

\* let mut issues = jira.search().iter(closed query, ..)
\*     .map(|iter| iter.collect()).unwrap_or_default();
FetchClosed ==
    /\ pc = "closed"
    /\ \E r \in {Err} \cup {Ok(v) : v \in DistinctSeqsUpTo(IssueUniverse, MaxIssues)} :
          /\ closed_result' = r
          /\ issues' = UnwrapOrDefault(r)
    /\ calls' = Append(calls, [kind |-> "jira_closed", days |-> lookback_days])
    /\ pc' = "in_flight"
    /\ UNCHANGED <<config, slack_url, jira, now1, now2, lookback_days, since,
                   pd_result, incidents, incidents_response,
                   inflight_result, in_flight, grouped, jira_response,
                   post_result, debrief_result, response>>

\* The in-flight search with `?` in place of unwrap_or_default: a failed
\* search returns from debrief.
FetchInFlightOrReturn ==
    /\ pc = "in_flight"
    /\ \E r \in {Err} \cup
                {Ok(v) : v \in DistinctSeqsUpTo(IssueUniverse \ Range(issues),
                                                MaxIssues - Len(issues))} :
          /\ inflight_result' = r
          /\ IF r.ok
             THEN in_flight' = r.val /\ pc' = "group"
                  /\ debrief_result' = debrief_result
             ELSE in_flight' = in_flight /\ pc' = "respond"
                  /\ debrief_result' = "Err"
    /\ calls' = Append(calls, [kind |-> "jira_in_flight"])
    /\ UNCHANGED <<config, slack_url, jira, now1, now2, lookback_days, since,
                   pd_result, incidents, incidents_response, closed_result,
                   issues, grouped, jira_response,
                   post_result, response>>

\* let in_flight = jira.search().iter(in-flight query, ..)
\*     .map(|iter| iter.collect()).unwrap_or_default();
FetchInFlight ==
    /\ pc = "in_flight"
    /\ \E r \in {Err} \cup
                {Ok(v) : v \in DistinctSeqsUpTo(IssueUniverse \ Range(issues),
                                                MaxIssues - Len(issues))} :
          /\ inflight_result' = r
          /\ in_flight' = UnwrapOrDefault(r)
    /\ calls' = Append(calls, [kind |-> "jira_in_flight"])
    /\ pc' = "group"
    /\ UNCHANGED <<config, slack_url, jira, now1, now2, lookback_days, since,
                   pd_result, incidents, incidents_response, closed_result,
                   issues, grouped, jira_response,
                   post_result, debrief_result, response>>

\* issues.extend(in_flight);
\* let grouped = issues.into_iter().fold(BTreeMap::new(), ..);
Group ==
    /\ pc = "group"
    /\ issues' = issues \o in_flight
    /\ grouped' = GroupFold(EmptyMap, issues \o in_flight)
    /\ pc' = "render"
    /\ UNCHANGED <<config, slack_url, jira, now1, now2, lookback_days, since,
                   pd_result, incidents, incidents_response, closed_result,
                   inflight_result, in_flight, jira_response,
                   calls, post_result, debrief_result, response>>

\* let jira_response = grouped.into_iter().fold(String::new(), ..);
Render ==
    /\ pc = "render"
    /\ jira_response' = RenderGroups(grouped)
    /\ pc' = "post"
    /\ UNCHANGED <<config, slack_url, jira, now1, now2, lookback_days, since,
                   pd_result, incidents, incidents_response, closed_result,
                   inflight_result, issues, in_flight, grouped,
                   calls, post_result, debrief_result, response>>

\* The POST made only when something was fetched.
SendUnlessEmpty ==
    /\ pc = "post"
    /\ IF incidents = <<>> /\ issues = <<>>
       THEN calls' = calls /\ post_result' = post_result
       ELSE /\ calls' = Append(calls,
                          [kind |-> "post", url |-> slack_url.val,
                           text |-> ReportText(incidents_response, jira_response)])
            /\ \E r \in {"Ok", "Err"} : post_result' = r
    /\ debrief_result' = "Ok"
    /\ pc' = "respond"
    /\ UNCHANGED <<config, slack_url, jira, now1, now2, lookback_days, since,
                   pd_result, incidents, incidents_response, closed_result,
                   inflight_result, issues, in_flight, grouped, jira_response,
                   response>>

\* if let Err(err) = Client::new().post(&slack_url).json(..).send() { println }
\* Ok(println!("debriefed"))
Send ==
    /\ pc = "post"
    /\ calls' = Append(calls,
                       [kind |-> "post", url |-> slack_url.val,
                        text |-> ReportText(incidents_response, jira_response)])
    /\ \E r \in {"Ok", "Err"} : post_result' = r
    /\ debrief_result' = "Ok"
    /\ pc' = "respond"
    /\ UNCHANGED <<config, slack_url, jira, now1, now2, lookback_days, since,
                   pd_result, incidents, incidents_response, closed_result,
                   inflight_result, issues, in_flight, grouped, jira_response,
                   response>>

\* debrief(config, slack_url)?: the error of debrief is returned.
RespondPropagating ==
    /\ pc = "respond"
    /\ response' = debrief_result
    /\ pc' = "done"
    /\ UNCHANGED <<config, slack_url, jira, now1, now2, lookback_days, since,
                   pd_result, incidents, incidents_response, closed_result,
                   inflight_result, issues, in_flight, grouped, jira_response,
                   calls, post_result, debrief_result>>

\* if let Err(_) = debrief(config, slack_url) { println!("err debriefing"); }
\* Ok(lando::Response::new(()))
Respond ==
    /\ pc = "respond"
    /\ response' = "Ok"
    /\ pc' = "done"
    /\ UNCHANGED <<config, slack_url, jira, now1, now2, lookback_days, since,
                   pd_result, incidents, incidents_response, closed_result,
                   inflight_result, issues, in_flight, grouped, jira_response,
                   calls, post_result, debrief_result>>

Next ==
    \/ FromEnv
    \/ Payload
    \/ JiraNew
    \/ Lookback
    \/ Since
    \/ FetchIncidents
    \/ Weather
    \/ FetchClosed
    \/ FetchInFlight
    \/ Group
    \/ Render
    \/ Send
    \/ Respond

Spec == Init /\ [][Next]_vars

----------------------------------------------------------------------------
(* Vocabulary of the properties *)

PostCalls == { i \in DOMAIN calls : calls[i].kind = "post" }

CallKinds == [i \in DOMAIN calls |-> calls[i].kind]

Done == pc = "done"

\* grouped is written by Group only and jira_response by Render only: the
\* properties of the two values are stated where they have just been built.
Grouped == pc = "render"

Rendered == pc = "post"

\* What each fetch contributes, read off its own Result only.
FromPagerDuty == IF pd_result.ok THEN pd_result.val ELSE <<>>
FromClosed == IF closed_result.ok THEN closed_result.val ELSE <<>>
FromInFlight == IF inflight_result.ok THEN inflight_result.val ELSE <<>>
Merged == FromClosed \o FromInFlight

\* The line and the label the documentation of the report describes.
Annotation(issue) ==
    IF issue.status.some /\ issue.status.val = sClosed
    THEN <<>>
    ELSE <<"@">> \o (IF issue.assignee.some THEN issue.assignee.val ELSE sNobody)

LineBase(issue) ==
    <<"<">> \o issue.permalink \o <<"|">> \o issue.key \o <<">", " ">>
        \o (IF issue.summary.some THEN issue.summary.val ELSE sNoSummary)

ExpectedLine(issue) == LineBase(issue) \o Annotation(issue)

Glyph(status) ==
    CASE status = sInProgress -> <<"U+1F469", "U+1F3FB", "U+200D", "U+1F4BB">>
      [] status = sInReview -> <<"U+1F469", "U+1F3FC", "U+200D", "U+1F52C">>
      [] status = sClosed -> <<"U+1F389">>
      [] OTHER -> sShrug

ExpectedLabel(status) == Glyph(status) \o <<" ", "*">> \o status \o <<"*">>

StatusOf(issue) == IF issue.status.some THEN issue.status.val ELSE sUnknownStatus

RECURSIVE Repeat(_, _)
Repeat(str, n) == IF n = 0 THEN <<>> ELSE str \o Repeat(str, n - 1)

\* Every incident of IncidentUniverse renders as the same line.
ExpectedWeather ==
    sWeatherHeader \o
    Repeat(<<"<", "h", "/", "1", "|", "#", "1", "0", "4", "2", ">", " ",
             "D", "B", " ", "(", "u", "p", ")", NL>>, Len(FromPagerDuty))

----------------------------------------------------------------------------
(* C1 *)

\* C1 as stated: every invocation of the handler attempts the POST exactly
\* once.
C1_PostExactlyOncePerInvocation == Done => Cardinality(PostCalls) = 1

\* C1 amended: the POST is never attempted twice; an invocation that got its
\* configuration, its payload and its Jira client ends with exactly one POST,
\* whatever was fetched, and with the weather header and an empty issue block
\* when all three fetches gave nothing; any other invocation ends with none.
C1_PostExactlyOncePerDebrief ==
    /\ Cardinality(PostCalls) <= 1
    /\ Done =>
         IF jira = "Ok"
         THEN /\ Cardinality(PostCalls) = 1
              /\ calls[Len(calls)].kind = "post"
              /\ (FromPagerDuty = <<>> /\ Merged = <<>>) =>
                    calls[Len(calls)].text = sWeatherHeader \o <<NL>>
         ELSE PostCalls = {}

C1_Witness ==
    /\ Done
    /\ jira = "Ok"
    /\ FromPagerDuty = <<>> /\ Merged = <<>>
    /\ Cardinality(PostCalls) = 1

----------------------------------------------------------------------------
(* C2 *)

\* C2 as stated: the handler's result is the success response whatever failed.
C2_AlwaysSuccess == Done => response = "Ok"

\* C2 amended: once the configuration is loaded and the payload parsed, the
\* handler's result is the success response whatever fails later (Jira client,
\* any fetch, the delivery); a missing configuration or a malformed payload is
\* returned to the caller as an error, and a missing payload panics.
C2_SuccessOnceConfigured ==
    Done =>
       /\ slack_url.some => response = "Ok"
       /\ ~slack_url.some => response \in {"Err", "panic"}
       /\ ~config.ok => response = "Err"

C2_Witness ==
    /\ Done
    /\ response = "Ok"
    /\ jira = "Ok"
    /\ ~pd_result.ok /\ ~closed_result.ok /\ ~inflight_result.ok
    /\ post_result = "Err"

C2_WitnessJira == Done /\ response = "Ok" /\ jira = "Err"

----------------------------------------------------------------------------
(* C3 *)

\* C3: after the Jira client is built each fetch fails on its own: a failed
\* fetch yields the empty sequence, a successful one yields what the service
\* answered whatever the other two did, and the run goes on through grouping
\* and rendering to the delivery attempt.
C3_FetchesFailIndependently ==
    /\ pd_result.done => incidents = FromPagerDuty
    /\ inflight_result.done => in_flight = FromInFlight
    /\ closed_result.done =>
          issues = IF pc = "in_flight" \/ pc = "group" THEN FromClosed ELSE Merged
    /\ (Done /\ jira = "Ok") =>
          /\ CallKinds = <<"pd_get", "jira_closed", "jira_in_flight", "post">>
          /\ Cardinality(DOMAIN grouped) =
                Cardinality({ StatusOf(Merged[i]) : i \in DOMAIN Merged })
          /\ incidents_response = ExpectedWeather
          /\ calls[4].text = incidents_response \o <<NL>> \o jira_response

C3_Witness ==
    /\ Done
    /\ ~pd_result.ok
    /\ closed_result.ok /\ Len(closed_result.val) = 2
    /\ ~inflight_result.ok
    /\ Len(issues) = 2
    /\ Cardinality(PostCalls) = 1

----------------------------------------------------------------------------
(* C4 *)

\* C4: with the configuration missing, the payload malformed, or the Jira
\* client not built, the invocation makes no outbound call at all.
C4_NoCallWhenFatal ==
    ((config.done /\ ~config.ok) \/ (Done /\ ~slack_url.some) \/ jira = "Err")
        => calls = <<>>

C4_Witness == Done /\ jira = "Err" /\ calls = <<>>

----------------------------------------------------------------------------
(* C5 *)

\* C5: the window is 3 days when the date read is a Monday and 1 day on each
\* of the other six weekdays, and nothing else; the closed-issues query is
\* made with that window.
C5_LookbackWindow ==
    /\ ~now1.some => lookback_days = 0
    /\ now1.some =>
          /\ now1.val % 7 = 0 => lookback_days = 3
          /\ now1.val % 7 \in 1..6 => lookback_days = 1
          /\ lookback_days \in {1, 3}
    /\ \A i \in DOMAIN calls :
          calls[i].kind = "jira_closed" => calls[i].days = lookback_days

C5_Witness == Done /\ now1.some /\ now1.val % 7 = 0 /\ lookback_days = 3

C5_WitnessOther == Done /\ now1.some /\ now1.val % 7 = 6 /\ lookback_days = 1

----------------------------------------------------------------------------
(* C10 *)

\* C10: the `since` bound is the date whose weekday chose the window, minus
\* the window, also when the local date changes between the clock readings.
C10_SinceFromTheSameToday ==
    since.some => since.val = now1.val - lookback_days

----------------------------------------------------------------------------
(* C6 *)

\* C6: the line of an issue is `<permalink|key> summary` followed by an owner
\* annotation exactly when the display status is not "Closed": nothing for a
\* Closed issue, assignee or not, and `@<assignee name>` or `@nobody`,
\* attached without a separator, for any other issue, "Unknown Status"
\* included.
C6_OwnerUnlessClosed ==
    Grouped =>
       /\ \A i \in DOMAIN issues :
             \E k \in DOMAIN grouped : \E j \in DOMAIN grouped[k] :
                grouped[k][j] = LineBase(issues[i]) \o
                   (IF StatusOf(issues[i]) = sClosed
                    THEN <<>>
                    ELSE IF issues[i].assignee.some
                    THEN <<"@">> \o issues[i].assignee.val
                    ELSE <<"@", "n", "o", "b", "o", "d", "y">>)
       /\ \A k \in DOMAIN grouped : \A j \in DOMAIN grouped[k] :
             \E i \in DOMAIN issues : grouped[k][j] = ExpectedLine(issues[i])

C6_Witness ==
    /\ Grouped
    /\ \E i \in DOMAIN issues :
          StatusOf(issues[i]) = sClosed /\ issues[i].assignee.some
    /\ \E i \in DOMAIN issues :
          StatusOf(issues[i]) = sInReview /\ ~issues[i].assignee.some
    /\ \E i \in DOMAIN issues :
          ~issues[i].status.some /\ issues[i].assignee.some

----------------------------------------------------------------------------
(* C7 *)

RECURSIVE Blocks(_, _)
Blocks(map, keys) ==
    IF keys = <<>> THEN <<>>
    ELSE Head(keys) \o <<NL>> \o Join(map[Head(keys)], <<NL>>) \o <<NL>>
            \o Blocks(map, Tail(keys))

\* C7: one group per distinct display status of the merged issues, labelled
\* with the glyph of the status (shrug for a status outside the table) and
\* the status in asterisks; the block is the groups in strictly increasing
\* order of the label, each its label line followed by its member lines.
C7_GroupsByDecoratedLabel ==
    /\ Grouped =>
          /\ DOMAIN grouped = { ExpectedLabel(StatusOf(issues[i])) : i \in DOMAIN issues }
          /\ Cardinality(DOMAIN grouped) =
                Cardinality({ StatusOf(issues[i]) : i \in DOMAIN issues })
    /\ Rendered =>
          LET keys == DOMAIN grouped
              below(k) == { o \in keys : StrLess(o, k) }
              order == [r \in 1..Cardinality(keys) |->
                           CHOOSE k \in keys : Cardinality(below(k)) = r - 1]
          IN /\ \A k \in keys : \A o \in keys \ {k} :
                   StrLess(k, o) # StrLess(o, k)
             /\ \A r \in DOMAIN order : \A q \in DOMAIN order :
                   r < q => StrLess(order[r], order[q])
             /\ jira_response = Blocks(grouped, order)

C7_Witness ==
    /\ Rendered
    /\ { StatusOf(issues[i]) : i \in DOMAIN issues } = {sInProgress, sClosed, sBlocked}
    /\ StatusOf(issues[1]) = sInProgress
    /\ StatusOf(issues[3]) = sBlocked

----------------------------------------------------------------------------
(* C9 *)

RECURSIVE LinesUnder(_, _)
LinesUnder(label, rest) ==
    IF rest = <<>> THEN <<>>
    ELSE (IF ExpectedLabel(StatusOf(Head(rest))) = label
          THEN <<ExpectedLine(Head(rest))>>
          ELSE <<>>) \o LinesUnder(label, Tail(rest))

RECURSIVE SumLen(_, _)
SumLen(map, keys) ==
    IF keys = {} THEN 0
    ELSE LET k == CHOOSE x \in keys : TRUE
         IN Len(map[k]) + SumLen(map, keys \ {k})

\* C9: every issue of the merged sequence (closed-query answers, then
\* in-flight answers) gives exactly one line to exactly one group, and the
\* lines of a group are in the order of their issues in the merged sequence.
C9_GroupingKeepsMergeOrder ==
    /\ pc = "group" => issues = FromClosed /\ in_flight = FromInFlight
    /\ Grouped =>
          /\ issues = Merged
          /\ SumLen(grouped, DOMAIN grouped) = Len(Merged)
          /\ \A k \in DOMAIN grouped : grouped[k] = LinesUnder(k, Merged)

C9_Witness ==
    /\ Grouped
    /\ Len(FromClosed) = 2 /\ Len(FromInFlight) = 1
    /\ StatusOf(FromClosed[1]) = sBlocked
    /\ StatusOf(FromClosed[2]) = sClosed
    /\ StatusOf(FromInFlight[1]) = sClosed
    /\ Len(grouped[ExpectedLabel(sClosed)]) = 2

----------------------------------------------------------------------------
(* C8 *)

\* The text cut at its line feeds (the piece after the last one is dropped
\* when empty).
SplitLines(text) ==
    LET feeds == { i \in DOMAIN text : text[i] = NL }
        n == Cardinality(feeds)
        feed(k) == IF k = 0 THEN 0
                   ELSE CHOOSE i \in feeds :
                           Cardinality({ j \in feeds : j < i }) = k - 1
        whole == [k \in 1..n |-> SubSeq(text, feed(k - 1) + 1, feed(k) - 1)]
    IN IF feed(n) = Len(text) THEN whole
       ELSE Append(whole, SubSeq(text, feed(n) + 1, Len(text)))

IsMemberLine(line) == line # <<>> /\ line[1] = "<"

\* The status of a label line `glyph *status*`: what stands between the
\* first " *" and the closing "*".
StatusOfLabel(line) ==
    LET cuts == { i \in 1..(Len(line) - 1) : line[i] = " " /\ line[i + 1] = "*" }
    IN IF cuts = {} \/ line[Len(line)] # "*" THEN line
       ELSE LET c == CHOOSE i \in cuts : \A o \in cuts : i <= o
            IN SubSeq(line, c + 2, Len(line) - 1)

RECURSIVE ParseLines(_, _)
ParseLines(lines, status) ==
    IF lines = <<>> THEN {}
    ELSE IF IsMemberLine(Head(lines))
    THEN {<<status, Head(lines)>>} \cup ParseLines(Tail(lines), status)
    ELSE ParseLines(Tail(lines), StatusOfLabel(Head(lines)))

ParseBlock(text) == ParseLines(SplitLines(text), <<>>)

FedPairs == { <<StatusOf(Merged[i]), ExpectedLine(Merged[i])>> : i \in DOMAIN Merged }

SingleLine(str) == \A i \in DOMAIN str : str[i] # NL

SingleLineIssue(issue) ==
    /\ SingleLine(issue.permalink)
    /\ SingleLine(issue.key)
    /\ SingleLine(StatusOf(issue))
    /\ issue.summary.some => SingleLine(issue.summary.val)
    /\ issue.assignee.some => SingleLine(issue.assignee.val)

\* C8 as stated: for any closed and in-flight issues, parsing the rendered
\* block gives back exactly the (display status, line) pairs fed to grouping.
C8_RoundTrip == Rendered => ParseBlock(jira_response) = FedPairs

\* C8 amended: the same, for issues none of whose rendered fields (permalink,
\* key, summary, status name, assignee name) contains a line feed.
C8_RoundTripOfSingleLineFields ==
    (Rendered /\ \A i \in DOMAIN Merged : SingleLineIssue(Merged[i]))
        => ParseBlock(jira_response) = FedPairs

C8_Witness ==
    /\ Rendered
    /\ \A i \in DOMAIN Merged : SingleLineIssue(Merged[i])
    /\ Len(FromClosed) = 2 /\ Len(FromInFlight) = 1
    /\ Cardinality(DOMAIN grouped) = 2
    /\ \E i \in DOMAIN Merged : ~Merged[i].status.some
    /\ Cardinality(ParseBlock(jira_response)) = 3

====
